---- MODULE Spec2Model ----
(***************************************************************************)
(* Model of the Minio storage adapter of q-hub                             *)
(* (api/server/services/Files/Minio/crud.js and initialize.js): the key    *)
(* codec, the signed-URL expiry policy, batch and single refresh, delete   *)
(* and the streaming upload.                                               *)
(*                                                                         *)
(* JavaScript strings are modelled as sequences of one-character strings,  *)
(* so that substring, split, includes, parseInt and the URL and date       *)
(* parsers are computed the way the code computes them.                    *)
(***************************************************************************)
EXTENDS Integers, Sequences, FiniteSets, TLC

(***************************************************************************)
(* JavaScript string primitives                                            *)
(***************************************************************************)
Digits == <<"0", "1", "2", "3", "4", "5", "6", "7", "8", "9">>

LowerSeq == <<"a", "b", "c", "d", "e", "f", "g", "h", "i", "j", "k", "l", "m",
              "n", "o", "p", "q", "r", "s", "t", "u", "v", "w", "x", "y", "z">>

UpperSeq == <<"A", "B", "C", "D", "E", "F", "G", "H", "I", "J", "K", "L", "M",
              "N", "O", "P", "Q", "R", "S", "T", "U", "V", "W", "X", "Y", "Z">>

DigitSet == {Digits[i] : i \in 1..10}

AlphaSet == {LowerSeq[i] : i \in 1..26} \cup {UpperSeq[i] : i \in 1..26}

\* The characters a URL scheme may hold after its first letter.
SchemeChars == AlphaSet \cup DigitSet \cup {"+", "-", "."}

DigitVal(c) == (CHOOSE i \in 1..10 : Digits[i] = c) - 1

ToLowerChar(c) ==
  IF \E i \in 1..26 : UpperSeq[i] = c
  THEN LowerSeq[CHOOSE i \in 1..26 : UpperSeq[i] = c]
  ELSE c

ToLowerCase(s) == [i \in 1..Len(s) |-> ToLowerChar(s[i])]

Min(a, b) == IF a <= b THEN a ELSE b

Max(a, b) == IF a >= b THEN a ELSE b

\* String.prototype.substring(a, b), 0-based, end exclusive, clamped.
Substring(s, a, b) == SubSeq(s, Min(Max(a, 0), Len(s)) + 1, Min(Max(b, 0), Len(s)))

\* String.prototype.substring(a)
SubstringFrom(s, a) == Substring(s, a, Len(s))

\* 1-based index of the first character of s that lies in set cs, 0 if none.
FirstIndexIn(s, cs) ==
  IF \E i \in 1..Len(s) : s[i] \in cs
  THEN CHOOSE i \in 1..Len(s) : s[i] \in cs /\ \A j \in 1..(i - 1) : s[j] \notin cs
  ELSE 0

StartsWith(s, p) == Len(p) <= Len(s) /\ SubSeq(s, 1, Len(p)) = p

\* String.prototype.includes
Includes(s, p) == \E i \in 0..(Len(s) - Len(p)) : SubSeq(s, i + 1, i + Len(p)) = p

\* String.prototype.split on a one-character separator.
RECURSIVE Split(_, _)
Split(s, sep) ==
  LET i == FirstIndexIn(s, {sep})
  IN  IF i = 0 THEN <<s>>
      ELSE <<SubSeq(s, 1, i - 1)>> \o Split(SubSeq(s, i + 1, Len(s)), sep)

\* Array.prototype.join
RECURSIVE Join(_, _)
Join(parts, sep) ==
  IF Len(parts) = 0 THEN <<>>
  ELSE IF Len(parts) = 1 THEN parts[1]
  ELSE parts[1] \o sep \o Join(Tail(parts), sep)

\* Array.prototype.slice(from)
SliceFrom(parts, from) == SubSeq(parts, Min(from, Len(parts)) + 1, Len(parts))

(***************************************************************************)
(* JavaScript numbers: an integer or NaN.  Every comparison with NaN is    *)
(* false and every sum or product with NaN is NaN.                         *)
(***************************************************************************)
NaN == [nan |-> TRUE, v |-> 0]

Num(n) == [nan |-> FALSE, v |-> n]

NumAdd(a, b) == IF a.nan \/ b.nan THEN NaN ELSE Num(a.v + b.v)

NumSub(a, b) == IF a.nan \/ b.nan THEN NaN ELSE Num(a.v - b.v)

NumMul(a, b) == IF a.nan \/ b.nan THEN NaN ELSE Num(a.v * b.v)

NumLe(a, b) == ~a.nan /\ ~b.nan /\ a.v <= b.v

NumGe(a, b) == ~a.nan /\ ~b.nan /\ a.v >= b.v

NumGt(a, b) == ~a.nan /\ ~b.nan /\ a.v > b.v

\* Value of a string of decimal digits.
RECURSIVE DecValue(_)
DecValue(ds) ==
  IF Len(ds) = 0 THEN 0
  ELSE 10 * DecValue(SubSeq(ds, 1, Len(ds) - 1)) + DigitVal(ds[Len(ds)])

\* Length of the longest prefix of s made of characters of cs.
PrefixLen(s, cs) ==
  LET bad == {i \in 1..Len(s) : s[i] \notin cs}
  IN  IF bad = {} THEN Len(s) ELSE (CHOOSE i \in bad : \A j \in bad : i <= j) - 1

HexDigits == Digits \o <<"a", "b", "c", "d", "e", "f">>

HexDigitSet == {HexDigits[i] : i \in 1..16} \cup {"A", "B", "C", "D", "E", "F"}

HexVal(c) == (CHOOSE i \in 1..16 : HexDigits[i] = ToLowerChar(c)) - 1

\* Value of a string of hexadecimal digits.
RECURSIVE HexValue(_)
HexValue(ds) ==
  IF Len(ds) = 0 THEN 0
  ELSE 16 * HexValue(SubSeq(ds, 1, Len(ds) - 1)) + HexVal(ds[Len(ds)])

\* parseInt(s, radix) for radix 10 and for no radix (radix = 0): leading
\* blanks are skipped, one sign is read, then the longest run of digits; NaN
\* when there is no digit.  Without a radix a 0x prefix selects base 16.
parseDigits(t, neg, hex) ==
  LET n == PrefixLen(t, IF hex THEN HexDigitSet ELSE DigitSet)
  IN  IF n = 0 THEN NaN
      ELSE Num((IF neg THEN -1 ELSE 1)
                 * (IF hex THEN HexValue(SubSeq(t, 1, n)) ELSE DecValue(SubSeq(t, 1, n))))

parseUnsigned(t, neg, radix) ==
  IF radix = 0 /\ Len(t) >= 2 /\ t[1] = "0" /\ t[2] \in {"x", "X"}
  THEN parseDigits(SubSeq(t, 3, Len(t)), neg, TRUE)
  ELSE parseDigits(t, neg, FALSE)

parseSigned(t, radix) ==
  IF Len(t) > 0 /\ t[1] \in {"-", "+"}
  THEN parseUnsigned(Tail(t), t[1] = "-", radix)
  ELSE parseUnsigned(t, FALSE, radix)

parseIntRadix(s, radix) == parseSigned(SubSeq(s, PrefixLen(s, {" "}) + 1, Len(s)), radix)

\* parseInt(s)
parseInt(s) == parseIntRadix(s, 0)

\* parseInt(s, 10)
parseInt10(s) == parseIntRadix(s, 10)

\* Decimal text of a natural number, as template literals print it.
RECURSIVE NatToString(_)
NatToString(n) ==
  IF n < 10 THEN <<Digits[n + 1]>>
  ELSE NatToString(n \div 10) \o <<Digits[(n % 10) + 1]>>

\* n printed with at least w digits, zero padded.
PadNat(n, w) ==
  LET t == NatToString(n)
  IN  IF Len(t) >= w THEN t ELSE [i \in 1..(w - Len(t)) |-> "0"] \o t

(***************************************************************************)
(* new URL(input), without a base: the WHATWG parser on the characters the *)
(* model's strings are made of (letters, digits and - . _ : / ? & = + and  *)
(* the blank; no %, #, @ or backslash, so no percent-coding is involved).  *)
(* The result holds what the code reads: pathname and search parameters.   *)
(***************************************************************************)
SpecialSchemes == {<<"h", "t", "t", "p">>, <<"h", "t", "t", "p", "s">>,
                   <<"w", "s">>, <<"w", "s", "s">>, <<"f", "t", "p">>}

URLFailure == [ok |-> FALSE, pathname |-> <<>>, search |-> <<>>]

\* Leading and trailing blanks are stripped from the input.
RECURSIVE TrimBlanks(_)
TrimBlanks(s) ==
  IF Len(s) > 0 /\ s[1] = " " THEN TrimBlanks(Tail(s))
  ELSE IF Len(s) > 0 /\ s[Len(s)] = " " THEN TrimBlanks(SubSeq(s, 1, Len(s) - 1))
  ELSE s

\* Index of the ':' that ends a scheme at the start of s, 0 if s has none.
SchemeEnd(s) ==
  LET colon == FirstIndexIn(s, {":"})
  IN  IF colon > 1 /\ s[1] \in AlphaSet /\ \A j \in 2..(colon - 1) : s[j] \in SchemeChars
      THEN colon ELSE 0

\* The path's segments with "." dropped and ".." resolved; a dot segment in
\* last place leaves an empty last segment.
RECURSIVE ResolveDots(_, _)
ResolveDots(segs, acc) ==
  IF Len(segs) = 0 THEN acc
  ELSE LET seg  == Head(segs)
           last == Len(segs) = 1
           up   == IF Len(acc) > 0 THEN SubSeq(acc, 1, Len(acc) - 1) ELSE acc
       IN  IF seg = <<".", ".">>
           THEN ResolveDots(Tail(segs), IF last THEN Append(up, <<>>) ELSE up)
           ELSE IF seg = <<".">>
           THEN ResolveDots(Tail(segs), IF last THEN Append(acc, <<>>) ELSE acc)
           ELSE ResolveDots(Tail(segs), Append(acc, seg))

\* pathname of a path that starts with "/" (or is empty).
PathName(path) ==
  IF Len(path) = 0 THEN <<"/">>
  ELSE <<"/">> \o Join(ResolveDots(Split(Tail(path), "/"), <<>>), <<"/">>)

\* host[:port] is acceptable: a host without blanks, non-empty when the
\* scheme is special, and a port of digits only.
AuthorityOK(auth, special) ==
  LET colon == FirstIndexIn(auth, {":"})
      host  == IF colon = 0 THEN auth ELSE SubSeq(auth, 1, colon - 1)
      port  == IF colon = 0 THEN <<>> ELSE SubSeq(auth, colon + 1, Len(auth))
  IN  /\ (special => Len(host) > 0)
      /\ \A i \in 1..Len(host) : host[i] # " "
      /\ \A i \in 1..Len(port) : port[i] \in DigitSet

\* The URL of an authority and the path that follows it.
ParseAuthority(special, auth, path, search) ==
  IF AuthorityOK(auth, special)
  THEN [ok |-> TRUE,
        pathname |-> IF special \/ Len(path) > 0 THEN PathName(path) ELSE <<>>,
        search |-> search]
  ELSE URLFailure

\* after: what follows the slashes before the authority; slash: the index
\* of its first "/", where the path begins.
ParseAfterSlashes(special, after, slash, search) ==
  ParseAuthority(special,
                 IF slash = 0 THEN after ELSE SubSeq(after, 1, slash - 1),
                 IF slash = 0 THEN <<>> ELSE SubSeq(after, slash, Len(after)),
                 search)

\* hier: what lies between the scheme and the query; slashes: how many
\* leading slashes introduce an authority (-1: there is no authority).
ParseSlashes(special, hier, slashes, search) ==
  IF slashes >= 0
  THEN ParseAfterSlashes(special, SubSeq(hier, slashes + 1, Len(hier)),
                         FirstIndexIn(SubSeq(hier, slashes + 1, Len(hier)), {"/"}), search)
  ELSE IF StartsWith(hier, <<"/">>)
  THEN [ok |-> TRUE, pathname |-> PathName(hier), search |-> search]
  ELSE [ok |-> TRUE, pathname |-> hier, search |-> search]   \* opaque path

\* After a special scheme every leading slash is skipped; otherwise an
\* authority follows only "//".
ParseHier(special, hier, search) ==
  ParseSlashes(special, hier,
               IF special THEN PrefixLen(hier, {"/"})
               ELSE IF StartsWith(hier, <<"/", "/">>) THEN 2 ELSE -1,
               search)

\* rest: what follows the scheme; q: the index of its first "?".
ParseQuery(special, rest, q) ==
  ParseHier(special,
            IF q = 0 THEN rest ELSE SubSeq(rest, 1, q - 1),
            IF q = 0 THEN <<>> ELSE SubSeq(rest, q + 1, Len(rest)))

ParseScheme(s, colon) ==
  IF colon = 0 THEN URLFailure
  ELSE ParseQuery(ToLowerCase(SubSeq(s, 1, colon - 1)) \in SpecialSchemes,
                  SubSeq(s, colon + 1, Len(s)),
                  FirstIndexIn(SubSeq(s, colon + 1, Len(s)), {"?"}))

ParseTrimmed(s) == ParseScheme(s, SchemeEnd(s))

ParseURL(input) == ParseTrimmed(TrimBlanks(input))

\* url.searchParams: the name=value pairs of the query, '+' read as a blank.
PlusToBlank(s) == [i \in 1..Len(s) |-> IF s[i] = "+" THEN " " ELSE s[i]]

SearchPair(piece) ==
  LET eq == FirstIndexIn(piece, {"="})
  IN  IF eq = 0 THEN [name |-> PlusToBlank(piece), value |-> <<>>]
      ELSE [name |-> PlusToBlank(SubSeq(piece, 1, eq - 1)),
            value |-> PlusToBlank(SubSeq(piece, eq + 1, Len(piece)))]

SearchParams(search) ==
  LET pieces == SelectSeq(Split(search, "&"), LAMBDA p : Len(p) > 0)
  IN  [i \in 1..Len(pieces) |-> SearchPair(pieces[i])]

\* searchParams.has(name)
SearchParamsHas(params, name) == \E i \in 1..Len(params) : params[i].name = name

\* searchParams.get(name): the first value, or null.
SearchParamsGet(params, name) ==
  IF SearchParamsHas(params, name)
  THEN [isNull |-> FALSE,
        value |-> params[CHOOSE i \in 1..Len(params) :
                           /\ params[i].name = name
                           /\ \A j \in 1..(i - 1) : params[j].name # name].value]
  ELSE [isNull |-> TRUE, value |-> <<>>]

\* !x for a value that is null or a string
Falsy(p) == p.isNull \/ Len(p.value) = 0

(***************************************************************************)
(* Date: new Date("YYYY-MM-DDTHH:mm:ssZ").getTime(), as V8 parses it.      *)
(* Times are milliseconds counted from ClockOrigin instead of 1970: the    *)
(* code only subtracts and compares times, and the model checker's         *)
(* integers are 32 bits wide.                                              *)
(***************************************************************************)
\* Days from 1970-01-01 to the civil date y-m-d (proleptic Gregorian).
DaysFromCivil(y0, m, d) ==
  LET y   == IF m <= 2 THEN y0 - 1 ELSE y0
      era == y \div 400
      yoe == y - era * 400
      mp  == (m + 9) % 12
      doy == (153 * mp + 2) \div 5 + d - 1
      doe == yoe * 365 + yoe \div 4 - yoe \div 100 + doy
  IN  era * 146097 + doe - 719468

\* The civil date of a day number: <<year, month, day>>.
CivilFromDays(z0) ==
  LET z   == z0 + 719468
      era == z \div 146097
      doe == z - era * 146097
      yoe == (doe - doe \div 1460 + doe \div 36524 - doe \div 146096) \div 365
      doy == doe - (365 * yoe + yoe \div 4 - yoe \div 100)
      mp  == (5 * doy + 2) \div 153
      d   == doy - (153 * mp + 2) \div 5 + 1
      m   == IF mp < 10 THEN mp + 3 ELSE mp - 9
  IN  <<yoe + era * 400 + (IF m <= 2 THEN 1 ELSE 0), m, d>>

ClockOrigin == DaysFromCivil(2024, 1, 1)

AllDigits(s, n) == Len(s) = n /\ \A i \in 1..n : s[i] \in DigitSet

\* new Date(`${year}-${month}-${day}T${hour}:${minute}:${second}Z`).getTime():
\* NaN (Invalid Date) unless every field has its full width in digits and is
\* in range; a day of 29..31 in a shorter month rolls over, 24:00:00 is the
\* next midnight.
DateGetTime(year, month, day, hour, minute, second) ==
  IF ~(/\ AllDigits(year, 4) /\ AllDigits(month, 2) /\ AllDigits(day, 2)
       /\ AllDigits(hour, 2) /\ AllDigits(minute, 2) /\ AllDigits(second, 2))
  THEN NaN
  ELSE LET y  == DecValue(year)
           mo == DecValue(month)
           d  == DecValue(day)
           h  == DecValue(hour)
           mi == DecValue(minute)
           s  == DecValue(second)
       IN  IF /\ mo \in 1..12 /\ d \in 1..31 /\ mi \in 0..59 /\ s \in 0..59
              /\ (h \in 0..23 \/ (h = 24 /\ mi = 0 /\ s = 0))
           THEN Num(((DaysFromCivil(y, mo, d) - ClockOrigin) * 86400
                     + h * 3600 + mi * 60 + s) * 1000)
           ELSE NaN

(***************************************************************************)
(* Program state                                                           *)
(***************************************************************************)
VARIABLES
  now,                   \* the clock new Date() reads, in ms since ClockOrigin
  envRefreshExpiryMs,    \* process.env.MINIO_REFRESH_EXPIRY_MS: undefined or a string
  minioRefreshExpiryMs,  \* module variable: null or a positive number of ms
  envUrlExpirySeconds,   \* process.env.MINIO_URL_EXPIRY_SECONDS: undefined or a string
  minioUrlExpirySeconds, \* module variable: the TTL handed to the URL issuer
  policy,                \* the last direct call of needsRefresh, with its result
  codec,                 \* the last encode / decode of a key, with its result
  files,                 \* refreshMinioFileUrls: the caller's array, changed in place
  input,                 \* the array as it was when refreshMinioFileUrls was called
  rm,                    \* refreshMinioFileUrls: position, filesToUpdate, result
  outcome,               \* what the loop did with each record examined so far
  persistLog,            \* the arguments of every batchUpdateFiles call
  signLog,               \* every getSignedUrl request: for which URL, key, success
  ro,                    \* refreshMinioUrl: the call and its result
  del,                   \* deleteFileFromMinio: position, the call, results so far
  objectPresent,         \* whether the store holds the object of the record
  reqLog,                \* every request deleteFileFromMinio sent to the store
  up,                    \* uploadFileToMinio: position, the call and its result
  tmpFile,               \* the local temporary file that is uploaded
  cards                  \* AgentCards: the agent classified, the tab, the result

configVars == <<envRefreshExpiryMs, minioRefreshExpiryMs, envUrlExpirySeconds,
                minioUrlExpirySeconds>>

refreshVars == <<files, input, rm, outcome, persistLog, signLog, ro>>

storeVars == <<del, objectPresent, reqLog, up, tmpFile>>

vars == <<now, configVars, policy, codec, refreshVars, storeVars, cards>>

\* undefined / null, and a present string value
Absent == [isNull |-> TRUE, value |-> <<>>]

Str(s) == [isNull |-> FALSE, value |-> s]

(***************************************************************************)
(* Module load: the refresh max-age override, crud.js lines 19 and 33-44.  *)
(***************************************************************************)
NullMs == [isNull |-> TRUE, ms |-> 0]

LoadRefreshExpiryMs(env) ==
  IF ~Falsy(env)
  THEN LET parsed == parseInt10(env.value)
       IN  IF ~parsed.nan /\ parsed.v > 0
           THEN [isNull |-> FALSE, ms |-> parsed.v]
           ELSE NullMs
  ELSE NullMs

(***************************************************************************)
(* Module load: the TTL of issued URLs, crud.js lines 18 and 21-31.        *)
(***************************************************************************)
SevenDays == 7 * 24 * 60 * 60

LoadUrlExpirySeconds(env) ==
  IF ~env.isNull
  THEN LET parsed == parseInt10(env.value)
       IN  IF ~parsed.nan /\ parsed.v > 0 THEN Min(parsed.v, SevenDays) ELSE SevenDays
  ELSE SevenDays

(***************************************************************************)
(* needsRefresh, crud.js lines 276-326                                     *)
(***************************************************************************)
XAmzSignature == <<"X", "-", "A", "m", "z", "-", "S", "i", "g", "n", "a", "t", "u", "r", "e">>

XAmzExpires == <<"X", "-", "A", "m", "z", "-", "E", "x", "p", "i", "r", "e", "s">>

XAmzDate == <<"X", "-", "A", "m", "z", "-", "D", "a", "t", "e">>

\* Mutant of hasSignature: every URL counts as signed.
hasSignature_any(params) == TRUE

\* line 283: the URL carries the signature parameter
hasSignature(params) == SearchParamsHas(params, XAmzSignature)

\* line 292: expiry information is missing
missingExpiryInfo(expiresParam, dateParam) == Falsy(expiresParam) \/ Falsy(dateParam)

\* lines 298-305: the AWS date YYYYMMDDTHHMMSSZ, cut by position
parseAmzDate(dateParam) ==
  DateGetTime(Substring(dateParam, 0, 4), Substring(dateParam, 4, 6),
              Substring(dateParam, 6, 8), Substring(dateParam, 9, 11),
              Substring(dateParam, 11, 13), Substring(dateParam, 13, 15))

\* line 306: the time value of expiresAtDate
expiresAtTime(dateObj, expiresParam) ==
  NumAdd(dateObj, NumMul(parseInt(expiresParam), Num(1000)))

\* Mutant of staleByMaxAge: a URL exactly maxAgeMs old is still fresh.
staleByMaxAge_strict(dateObj, nowMs, maxAgeMs) ==
  NumGt(NumSub(Num(nowMs), dateObj), Num(maxAgeMs))

\* lines 313-315: the max-age policy
staleByMaxAge(dateObj, nowMs, maxAgeMs) == NumGe(NumSub(Num(nowMs), dateObj), Num(maxAgeMs))

\* Mutant of staleByBuffer: the buffer margin is left out.
staleByBuffer_noBuffer(expiresAt, nowMs, bufferSeconds) == NumLe(expiresAt, Num(nowMs))

\* lines 319-320: the buffer policy
staleByBuffer(expiresAt, nowMs, bufferSeconds) ==
  NumLe(expiresAt, Num(nowMs + bufferSeconds * 1000))

\* lines 297-320, for a URL with both parameters
staleSince(dateObj, expiresText, bufferSeconds) ==
  IF ~minioRefreshExpiryMs.isNull
  THEN staleByMaxAge(dateObj, now, minioRefreshExpiryMs.ms)
  ELSE staleByBuffer(expiresAtTime(dateObj, expiresText), now, bufferSeconds)

\* lines 292-320
staleParams(expiresParam, dateParam, bufferSeconds) ==
  IF missingExpiryInfo(expiresParam, dateParam) THEN TRUE
  ELSE staleSince(parseAmzDate(dateParam.value), expiresParam.value, bufferSeconds)

\* lines 283-320, for the search parameters of a URL that parsed
signedUrlStale(params, bufferSeconds) ==
  IF ~hasSignature(params) THEN FALSE
  ELSE staleParams(SearchParamsGet(params, XAmzExpires), SearchParamsGet(params, XAmzDate),
                   bufferSeconds)

needsRefreshParsed(url, bufferSeconds) ==
  IF ~url.ok THEN TRUE                    \* new URL threw: the catch of line 321
  ELSE signedUrlStale(SearchParams(url.search), bufferSeconds)

needsRefresh(signedUrl, bufferSeconds) == needsRefreshParsed(ParseURL(signedUrl), bufferSeconds)

(***************************************************************************)
(* Key codec: getMinioKey (line 49), extractKeyFromMinioUrl (230-247) and  *)
(* the split of the key in getNewMinioURL (335-346) and refreshMinioUrl    *)
(* (427-441).                                                              *)
(***************************************************************************)
getMinioKey(basePath, userId, fileName) ==
  basePath \o <<"/">> \o userId \o <<"/">> \o fileName

Http == <<"h", "t", "t", "p">>

\* The result of a call that may throw.
Threw == [threw |-> TRUE, value |-> <<>>]

Returned(v) == [threw |-> FALSE, value |-> v]

\* lines 235-246, url being new URL(fileUrlOrKey) or its failure
extractKeyParsed(fileUrlOrKey, url) ==
  IF url.ok THEN Returned(SubstringFrom(url.pathname, 1))
  ELSE IF /\ Len(Split(fileUrlOrKey, "/")) >= 3
          /\ ~StartsWith(fileUrlOrKey, Http)
          /\ ~StartsWith(fileUrlOrKey, <<"/">>)
  THEN Returned(fileUrlOrKey)
  ELSE IF StartsWith(fileUrlOrKey, <<"/">>)
  THEN Returned(SubstringFrom(fileUrlOrKey, 1))
  ELSE Returned(fileUrlOrKey)

extractKeyFromMinioUrl(fileUrlOrKey) ==
  IF Len(fileUrlOrKey) = 0 THEN Threw
  ELSE extractKeyParsed(fileUrlOrKey, ParseURL(fileUrlOrKey))

\* Mutant of keyFileName: only the third segment is kept.
keyFileName_thirdOnly(keyParts) == keyParts[3]

\* line 346: every segment past the second, joined again
keyFileName(keyParts) == Join(SliceFrom(keyParts, 2), <<"/">>)

NoParts == [ok |-> FALSE, basePath |-> <<>>, userId |-> <<>>, fileName |-> <<>>]

\* lines 339-346
splitKeyParts(keyParts) ==
  IF Len(keyParts) < 3 THEN NoParts
  ELSE [ok |-> TRUE, basePath |-> keyParts[1], userId |-> keyParts[2],
        fileName |-> keyFileName(keyParts)]

\* lines 336-346, minioKey being what extractKeyFromMinioUrl returned or threw
decodeExtracted(minioKey) ==
  IF minioKey.threw \/ Len(minioKey.value) = 0 THEN NoParts
  ELSE splitKeyParts(Split(minioKey.value, "/"))

\* lines 335-346: the three parts of the key of currentURL, or ok = FALSE
\* where the code gives up (the extraction threw, the key is empty, or it has
\* fewer than three segments).
decodeKeyParts(currentURL) == decodeExtracted(extractKeyFromMinioUrl(currentURL))

(***************************************************************************)
(* The presigned-URL wire format (what getSignedUrl returns for a client   *)
(* with forcePathStyle: true): endpoint/bucket/key?X-Amz-Date=...          *)
(***************************************************************************)
MinioEndpoint == <<"h", "t", "t", "p", ":", "/", "/", "m">>

bucketName == <<"q", "-", "h", "u", "b">>

defaultBasePath == <<"i", "m", "a", "g", "e", "s">>

QueryParam(name, p) == IF p.isNull THEN <<>> ELSE <<name \o <<"=">> \o p.value>>

\* A URL on the endpoint for bucket and key whose query carries the date and
\* expiry parameters that are not null, and the signature when sig is true.
PresignedUrlText(bucket, key, dateParam, expiresParam, sig) ==
  MinioEndpoint \o <<"/">> \o bucket \o <<"/">> \o key \o <<"?">>
    \o Join(QueryParam(XAmzDate, dateParam) \o QueryParam(XAmzExpires, expiresParam)
              \o (IF sig THEN <<XAmzSignature \o <<"=", "s">>>> ELSE <<>>),
            <<"&">>)

(***************************************************************************)
(* The URL issuer: getMinioURL (85-96) on getSignedUrl.  The request may   *)
(* fail (no client, no credentials); ok says whether this one succeeds.    *)
(***************************************************************************)
\* The signing time as X-Amz-Date prints it: YYYYMMDDTHHMMSSZ.
FormatAmzDate(ms) ==
  LET secs == ms \div 1000
      c    == CivilFromDays(ClockOrigin + secs \div 86400)
      rem  == secs % 86400
  IN  PadNat(c[1], 4) \o PadNat(c[2], 2) \o PadNat(c[3], 2) \o <<"T">>
        \o PadNat(rem \div 3600, 2) \o PadNat((rem % 3600) \div 60, 2)
        \o PadNat(rem % 60, 2) \o <<"Z">>

getSignedUrl(bucket, key, expiresIn) ==
  PresignedUrlText(bucket, key, Str(FormatAmzDate(now)), Str(NatToString(expiresIn)), TRUE)

getMinioURL(userId, fileName, bucket, basePath, ok) ==
  IF ok
  THEN Returned(getSignedUrl(bucket, getMinioKey(basePath, userId, fileName),
                             minioUrlExpirySeconds))
  ELSE Threw

\* The getSignedUrl request that reissuing currentURL makes, if it makes one.
SignRequestsOf(currentURL, parts, ok) ==
  IF parts.ok
  THEN <<[for |-> currentURL,
          key |-> getMinioKey(parts.basePath, parts.userId, parts.fileName),
          ok |-> ok]>>
  ELSE <<>>

SignRequests(currentURL, ok) == SignRequestsOf(currentURL, decodeKeyParts(currentURL), ok)

(***************************************************************************)
(* getNewMinioURL, crud.js lines 333-357: the new URL, or undefined.       *)
(***************************************************************************)
Undefined == Absent

\* the catch of line 354 turns a throw into undefined
orUndefined(issued) == IF issued.threw THEN Undefined ELSE Str(issued.value)

\* lines 336-353, parts being the decoded key
reissueParts(parts, ok) ==
  IF ~parts.ok THEN Undefined
  ELSE orUndefined(getMinioURL(parts.userId, parts.fileName, bucketName, parts.basePath, ok))

getNewMinioURL(currentURL, ok) == reissueParts(decodeKeyParts(currentURL), ok)

(***************************************************************************)
(* refreshMinioUrl, crud.js lines 417-456                                  *)
(***************************************************************************)
FileSourcesClient == "client"

\* lines 433-451, parts being the decoded key
refreshParts(fileObj, parts, ok) ==
  IF ~parts.ok THEN Returned(fileObj.filepath)
  ELSE getMinioURL(parts.userId, parts.fileName, bucketName, parts.basePath, ok)

\* lines 428-451
refreshExtracted(fileObj, minioKey, ok) ==
  IF minioKey.threw THEN Threw
  ELSE refreshParts(fileObj, decodeExtracted(minioKey), ok)

\* lines 427-451, the body of the try: the new URL, the old one, or a throw.
refreshMinioUrlTry(fileObj, ok) ==
  refreshExtracted(fileObj, extractKeyFromMinioUrl(fileObj.filepath), ok)

\* Mutant of refreshMinioUrlCatch: the error is raised again.
refreshMinioUrlCatch_rethrow(fileObj, attempt) == attempt

\* lines 452-455: the catch returns the original filepath
refreshMinioUrlCatch(fileObj, attempt) ==
  IF attempt.threw THEN Returned(fileObj.filepath) ELSE attempt

refreshMinioUrl(fileObj, bufferSeconds, ok) ==
  IF fileObj.isNull \/ fileObj.source # FileSourcesClient \/ Len(fileObj.filepath) = 0
  THEN Returned(fileObj.filepath)                           \* fileObj?.filepath || ''
  ELSE IF ~needsRefresh(fileObj.filepath, bufferSeconds)
  THEN Returned(fileObj.filepath)
  ELSE refreshMinioUrlCatch(fileObj, refreshMinioUrlTry(fileObj, ok))

(***************************************************************************)
(* Inputs of the expiry policy.  A date or TTL text comes with what it     *)
(* denotes, written down independently of the parsers above.               *)
(***************************************************************************)
DateTexts ==
  << [text |-> <<"2", "0", "2", "4", "0", "1", "0", "1", "T", "0", "0", "0", "0", "0", "0", "Z">>, wellFormed |-> TRUE, ms |-> 0],
     [text |-> <<"2", "0", "2", "4", "0", "1", "0", "1", "T", "0", "1", "0", "0", "0", "0", "Z">>, wellFormed |-> TRUE, ms |-> 3600000],
     [text |-> <<"2", "0", "2", "4", "0", "1", "0", "2", "T", "0", "0", "0", "0", "0", "0", "Z">>, wellFormed |-> TRUE, ms |-> 86400000],
     [text |-> <<"g", "a", "r", "b", "a", "g", "e">>, wellFormed |-> FALSE, ms |-> 0],
     [text |-> <<"2", "0", "2", "4", "-", "0", "1", "-", "0", "1", "T", "0", "0", ":", "0", "0">>, wellFormed |-> FALSE, ms |-> 0],
     [text |-> <<"2", "0", "2", "4", "1", "3", "0", "1", "T", "0", "0", "0", "0", "0", "0", "Z">>, wellFormed |-> FALSE, ms |-> 0] >>

TtlTexts ==
  << [text |-> <<"3", "6", "0", "0">>, wellFormed |-> TRUE, seconds |-> 3600],
     [text |-> <<"6", "0">>, wellFormed |-> TRUE, seconds |-> 60],
     [text |-> <<"0">>, wellFormed |-> TRUE, seconds |-> 0],
     [text |-> <<"a", "b", "c">>, wellFormed |-> FALSE, seconds |-> 0],
     [text |-> <<"1", "2", "x">>, wellFormed |-> FALSE, seconds |-> 0] >>

\* How a parameter appears in an input: not at all, with an empty value, or
\* with the i-th text.
ParamAbsent == 0

ParamEmpty == -1

DateChoices == {ParamAbsent, ParamEmpty} \cup (1..Len(DateTexts))

TtlChoices == {ParamAbsent, ParamEmpty} \cup (1..Len(TtlTexts))

ChoiceParam(texts, c) ==
  IF c = ParamAbsent THEN Absent
  ELSE IF c = ParamEmpty THEN Str(<<>>)
  ELSE Str(texts[c].text)

SampleKey == <<"i", "m", "a", "g", "e", "s", "/", "u", "1", "/", "f", ".", "p", "n", "g">>

\* Strings that are no absolute URL.
NonUrlTexts == {SampleKey, <<"n", "o", "t", " ", "a", " ", "u", "r", "l">>, <<"/", "i", "m", "a", "g", "e", "s", "/", "u", "1", "/", "f", ".", "p", "n", "g">>}

PolicyInputs ==
  [kind : {"url"}, sig : BOOLEAN, date : DateChoices, ttl : TtlChoices, text : {<<>>}]
    \cup [kind : {"text"}, sig : {FALSE}, date : {ParamAbsent}, ttl : {ParamAbsent},
          text : NonUrlTexts]

InputText(d) ==
  IF d.kind = "text" THEN d.text
  ELSE PresignedUrlText(bucketName, SampleKey, ChoiceParam(DateTexts, d.date),
                        ChoiceParam(TtlTexts, d.ttl), d.sig)

Nows == {2000, 10000, 3540000, 3599999, 3600000, 3700000}

FirstNow == CHOOSE t \in Nows : \A u \in Nows : t <= u

Buffers == {0, 60, 3600}

RefreshExpiryEnvs == {Absent, Str(<<>>), Str(<<"1", "0", "0", "0">>), Str(<<"3", "6", "0", "0", "0", "0", "0">>), Str(<<"a", "b", "c">>),
                      Str(<<"0">>), Str(<<"-", "5">>)}

(***************************************************************************)
(* SpecPolicy: module load, then time passes until the exported            *)
(* needsRefresh is called on one input.                                    *)
(***************************************************************************)
PolicyIdle == [called |-> FALSE, input |-> [kind |-> "none"], buffer |-> 0, at |-> 0,
               result |-> FALSE]

CodecIdle == [done |-> FALSE, basePath |-> 0, ownerId |-> <<>>, fileName |-> <<>>,
              key |-> <<>>, decoded |-> NoParts]

(***************************************************************************)
(* Inputs of refresh: the records a caller may hold.                       *)
(***************************************************************************)
MaxFiles == 2

FileIds == <<"a", "b", "c", "d">>

\* Signed for SampleKey at DateTexts[1] with a TTL of 3600 s.
StaleUrl == PresignedUrlText(bucketName, SampleKey, Str(DateTexts[1].text),
                             Str(TtlTexts[1].text), TRUE)

\* Signed for SampleKey at DateTexts[3], a day later.
FreshUrl == PresignedUrlText(bucketName, SampleKey, Str(DateTexts[3].text),
                             Str(TtlTexts[1].text), TRUE)

\* The same query as StaleUrl, without a signature.
UnsignedUrl == PresignedUrlText(bucketName, SampleKey, Str(DateTexts[1].text),
                                Str(TtlTexts[1].text), FALSE)

\* A signed, old URL whose path holds one segment only.
ShortUrl == MinioEndpoint \o <<"/">> \o <<"f", ".", "p", "n", "g">> \o <<"?">>
              \o Join(QueryParam(XAmzDate, Str(DateTexts[1].text))
                        \o QueryParam(XAmzExpires, Str(TtlTexts[1].text))
                        \o <<XAmzSignature \o <<"=", "s">>>>, <<"&">>)

\* A filepath that is neither a URL nor a key.
MalformedPath == <<"n", "o", "t", " ", "a", " ", "u", "r", "l">>

RecordKinds ==
  << [hasId |-> TRUE,  source |-> "client", filepath |-> StaleUrl],
     [hasId |-> TRUE,  source |-> "client", filepath |-> FreshUrl],
     [hasId |-> TRUE,  source |-> "local",  filepath |-> StaleUrl],
     [hasId |-> FALSE, source |-> "client", filepath |-> StaleUrl],
     [hasId |-> TRUE,  source |-> "client", filepath |-> <<>>],
     [hasId |-> TRUE,  source |-> "client", filepath |-> UnsignedUrl],
     [hasId |-> TRUE,  source |-> "client", filepath |-> ShortUrl],
     [hasId |-> TRUE,  source |-> "client", filepath |-> SampleKey],
     [hasId |-> TRUE,  source |-> "client", filepath |-> MalformedPath] >>

\* The record of kind k at position pos of the array.
FileOfKind(k, pos) ==
  [isNull |-> FALSE,
   file_id |-> IF RecordKinds[k].hasId THEN FileIds[pos] ELSE "",
   source |-> RecordKinds[k].source,
   filepath |-> RecordKinds[k].filepath]

NullFile == [isNull |-> TRUE, file_id |-> "", source |-> "", filepath |-> <<>>]

KindLists == UNION {[1..n -> 1..Len(RecordKinds)] : n \in 0..MaxFiles}

FilesOfKinds(ks) == [i \in 1..Len(ks) |-> FileOfKind(ks[i], i)]

FileObjs == {NullFile} \cup {FileOfKind(k, 1) : k \in 1..Len(RecordKinds)}

RefreshNows == {2000, 3700000}

RefreshBuffers == {0, 3600}

RefreshSpecEnvs == {Absent, Str(<<"1", "0", "0", "0">>)}

RmIdle == [pc |-> "idle", i |-> 1, buffer |-> 0, filesToUpdate |-> <<>>, threw |-> FALSE,
           issuerOk |-> <<>>]

RoIdle == [done |-> FALSE, fileObj |-> NullFile, buffer |-> 0, stale |-> FALSE,
           result |-> Returned(<<>>)]

(***************************************************************************)
(* Inputs of deleteFileFromMinio and uploadFileToMinio.                    *)
(***************************************************************************)
MaxCalls == 2

RequesterIds == {<<"u", "1">>, <<"u", "2">>}

\* The filepath of the record to delete: the key of u1's object, keys of
\* other owners that hold "u1" in the owner, the fileName or the basePath
\* segment, a signed path-style URL of u1's object, and no filepath.
DeletePaths ==
  { SampleKey,
    <<"i", "m", "a", "g", "e", "s", "/", "u", "1", "2", "/", "f", ".", "p", "n", "g">>,
    <<"i", "m", "a", "g", "e", "s", "/", "u", "2", "/", "u", "1", ".", "p", "n", "g">>,
    <<"u", "1", "/", "u", "2", "/", "f", ".", "p", "n", "g">>,
    StaleUrl,
    <<>> }

DelIdle == [pc |-> "idle", calls |-> 0, requester |-> <<>>, filepath |-> <<>>,
            key |-> <<>>, results |-> <<>>]

UploadUsers == {<<"u", "1">>, <<"u", "2">>}

UploadFileIds == {<<"f", "1">>, <<"f", "2">>}

UploadBasePaths == {defaultBasePath, <<"a", "v", "a", "t", "a", "r", "s">>}

\* path.basename of the temporary file's path, /tmp/x
TmpBaseName == <<"x">>

FileSizes == {0, 4096}

UpIdle == [pc |-> "idle", userId |-> <<>>, fileName |-> <<>>, basePath |-> <<>>,
           bytes |-> 0, unlink |-> "none",
           result |-> [threw |-> FALSE, filepath |-> <<>>, bytes |-> 0]]

StoreIdle ==
  /\ del = DelIdle
  /\ objectPresent = TRUE
  /\ reqLog = <<>>
  /\ up = UpIdle
  /\ tmpFile = [exists |-> TRUE, size |-> 0]

CardsIdle == [done |-> FALSE, agent |-> 0, name |-> 0, description |-> 0,
              selected |-> "basic", category |-> "basic", shown |-> FALSE]

\* Values of MINIO_URL_EXPIRY_SECONDS, each with whether it is a number and
\* which, written down independently of parseInt.
UrlExpiryTexts ==
  << [text |-> <<"3", "6", "0", "0">>, numeric |-> TRUE, value |-> 3600],
     [text |-> <<"1">>, numeric |-> TRUE, value |-> 1],
     [text |-> <<"6", "0", "4", "8", "0", "0">>, numeric |-> TRUE, value |-> 604800],
     [text |-> <<"6", "0", "4", "8", "0", "1">>, numeric |-> TRUE, value |-> 604801],
     [text |-> <<"7", "0", "0", "0", "0", "0">>, numeric |-> TRUE, value |-> 700000],
     [text |-> <<"0">>, numeric |-> TRUE, value |-> 0],
     [text |-> <<"-", "5">>, numeric |-> TRUE, value |-> -5],
     [text |-> <<"a", "b", "c">>, numeric |-> FALSE, value |-> 0],
     [text |-> <<>>, numeric |-> FALSE, value |-> 0],
     [text |-> <<"1", "2", "x">>, numeric |-> FALSE, value |-> 0],
     [text |-> <<"7", "d">>, numeric |-> FALSE, value |-> 0] >>

UrlExpiryEnvs == {Absent} \cup {Str(UrlExpiryTexts[i].text) : i \in 1..Len(UrlExpiryTexts)}

RefreshIdle ==
  /\ files = <<>>
  /\ input = <<>>
  /\ rm = RmIdle
  /\ outcome = <<>>
  /\ persistLog = <<>>
  /\ signLog = <<>>
  /\ ro = RoIdle

\* The state after the module is loaded with the environment drawn from the
\* given values.
InitConfig(refreshEnvs, urlEnvs) ==
  /\ envRefreshExpiryMs \in refreshEnvs
  /\ minioRefreshExpiryMs = LoadRefreshExpiryMs(envRefreshExpiryMs)
  /\ envUrlExpirySeconds \in urlEnvs
  /\ minioUrlExpirySeconds = LoadUrlExpirySeconds(envUrlExpirySeconds)

InitPolicy ==
  /\ InitConfig(RefreshExpiryEnvs, {Absent})
  /\ now = FirstNow
  /\ policy = PolicyIdle
  /\ codec = CodecIdle
  /\ RefreshIdle
  /\ cards = CardsIdle
  /\ StoreIdle

CallNeedsRefresh ==
  /\ ~policy.called /\ rm.pc = "idle" /\ ~ro.done
  /\ \E d \in PolicyInputs, b \in Buffers :
       policy' = [called |-> TRUE, input |-> d, buffer |-> b, at |-> now,
                  result |-> needsRefresh(InputText(d), b)]
  /\ UNCHANGED <<cards, now, configVars, codec, refreshVars, storeVars>>

Tick ==
  /\ ~policy.called /\ rm.pc = "idle" /\ ~ro.done
  /\ \E t \in Nows : t > now /\ now' = t
  /\ UNCHANGED <<cards, configVars, policy, codec, refreshVars, storeVars>>

NextPolicy == CallNeedsRefresh \/ Tick

SpecPolicy == InitPolicy /\ [][NextPolicy]_vars

(***************************************************************************)
(* Claims about the expiry policy, checked under SpecPolicy                *)
(***************************************************************************)
\* The input is a URL that carries the given parameter with a text of the list.
HasText(c) == c # ParamAbsent /\ c # ParamEmpty

WellFormedDate(d) == HasText(d.date) /\ DateTexts[d.date].wellFormed

WellFormedTtl(d) == HasText(d.ttl) /\ TtlTexts[d.ttl].wellFormed

IssuedAtMs(d) == DateTexts[d.date].ms

TtlSeconds(d) == TtlTexts[d.ttl].seconds

SignedInput(d) == d.kind = "url" /\ d.sig

\* C2 (as claimed): every input that does not parse as a URL, and every signed
\* URL that carries a date and a TTL of which one is malformed, is reported as
\* needing refresh, under the buffer policy and under the max-age override.
C2_ParseFailureIsStale ==
  policy.called =>
    LET d == policy.input
    IN  (\/ d.kind = "text"
         \/ /\ SignedInput(d) /\ HasText(d.date) /\ HasText(d.ttl)
            /\ (~DateTexts[d.date].wellFormed \/ ~TtlTexts[d.ttl].wellFormed))
        => policy.result

\* C7: with no max-age override, a signed URL with a well-formed issuance time
\* and TTL is stale exactly when issuedAt + ttl <= now + buffer.
C7_BufferPolicy ==
  (/\ policy.called /\ minioRefreshExpiryMs.isNull
   /\ SignedInput(policy.input) /\ WellFormedDate(policy.input)
   /\ WellFormedTtl(policy.input))
  => (policy.result <=>
        IssuedAtMs(policy.input) + TtlSeconds(policy.input) * 1000
          <= policy.at + policy.buffer * 1000)

\* C7 witness: ttl 3600, buffer 0, issued 3700 s before now: reported stale.
C7_Witness ==
  /\ policy.called /\ minioRefreshExpiryMs.isNull
  /\ SignedInput(policy.input) /\ WellFormedDate(policy.input)
  /\ WellFormedTtl(policy.input)
  /\ TtlSeconds(policy.input) = 3600 /\ policy.buffer = 0
  /\ policy.at - IssuedAtMs(policy.input) = 3700000
  /\ policy.result

\* C8 (as claimed): with a max-age override, a signed URL with a well-formed
\* issuance time is stale exactly when now - issuedAt >= maxAgeMs, whatever
\* the TTL parameter is, present or not.
C8_MaxAgeAnyTtl ==
  (/\ policy.called /\ ~minioRefreshExpiryMs.isNull
   /\ SignedInput(policy.input) /\ WellFormedDate(policy.input))
  => (policy.result <=>
        policy.at - IssuedAtMs(policy.input) >= minioRefreshExpiryMs.ms)

\* C8 (amended): the same for a URL that carries a non-empty TTL parameter,
\* whatever its value, well-formed or not.
C8_MaxAgePresentTtl ==
  (/\ policy.called /\ ~minioRefreshExpiryMs.isNull
   /\ SignedInput(policy.input) /\ WellFormedDate(policy.input)
   /\ HasText(policy.input.ttl))
  => (policy.result <=>
        policy.at - IssuedAtMs(policy.input) >= minioRefreshExpiryMs.ms)

\* C8 witness: max age 1000 ms, issued 2000 ms before now, a malformed TTL:
\* reported stale.
C8_Witness ==
  /\ policy.called /\ ~minioRefreshExpiryMs.isNull
  /\ minioRefreshExpiryMs.ms = 1000
  /\ SignedInput(policy.input) /\ WellFormedDate(policy.input)
  /\ HasText(policy.input.ttl) /\ ~TtlTexts[policy.input.ttl].wellFormed
  /\ policy.at - IssuedAtMs(policy.input) = 2000
  /\ policy.result

(***************************************************************************)
(* SpecCodec: a key is encoded from three parts and decoded again.         *)
(***************************************************************************)
\* Base paths, each with whether it begins with a URL scheme (a letter, then
\* letters, digits, '+', '-' or '.', then ':').
BasePathTexts ==
  << [text |-> <<"i", "m", "a", "g", "e", "s">>, scheme |-> FALSE],
     [text |-> <<"a", "v", "a", "t", "a", "r", "s">>, scheme |-> FALSE],
     [text |-> <<"h", "t", "t", "p", "x">>, scheme |-> FALSE],
     [text |-> <<"1", ":">>, scheme |-> FALSE],
     [text |-> <<>>, scheme |-> FALSE],
     [text |-> <<"a", ":">>, scheme |-> TRUE],
     [text |-> <<"h", "t", "t", "p", ":">>, scheme |-> TRUE] >>

OwnerIds == {<<"u", "1">>, <<"u", "1", "2">>, <<"a", ".", "b">>, <<>>}

FileNames == {<<"f", ".", "p", "n", "g">>, <<"a", "/", "b", ".", "p", "n", "g">>, <<"/", "x">>, <<".", ".">>, <<"a", ":", "b">>, <<"f", "1", "_", "_", "x", ".", "p", "n", "g">>}

InitCodec ==
  /\ InitConfig(RefreshExpiryEnvs, {Absent})
  /\ now = FirstNow
  /\ policy = PolicyIdle
  /\ codec = CodecIdle
  /\ RefreshIdle
  /\ cards = CardsIdle
  /\ StoreIdle

EncodeDecode ==
  /\ ~codec.done
  /\ \E b \in 1..Len(BasePathTexts), o \in OwnerIds, f \in FileNames :
       LET key == getMinioKey(BasePathTexts[b].text, o, f)
       IN  codec' = [done |-> TRUE, basePath |-> b, ownerId |-> o, fileName |-> f,
                     key |-> key, decoded |-> decodeKeyParts(key)]
  /\ UNCHANGED <<cards, now, configVars, policy, refreshVars, storeVars>>

NextCodec == EncodeDecode

SpecCodec == InitCodec /\ [][NextCodec]_vars

(***************************************************************************)
(* Claims about the key codec, checked under SpecCodec                     *)
(***************************************************************************)
NoSeparator(s) == \A i \in 1..Len(s) : s[i] # "/"

RoundTrips ==
  /\ codec.decoded.ok
  /\ codec.decoded.basePath = BasePathTexts[codec.basePath].text
  /\ codec.decoded.userId = codec.ownerId
  /\ codec.decoded.fileName = codec.fileName

examineReissued_never(newURL) == [what |-> "not reissued", newURL |-> Undefined]

examineReissued(newURL) ==
  IF newURL.isNull THEN [what |-> "not reissued", newURL |-> Undefined]
  ELSE [what |-> "refreshed", newURL |-> newURL]

examine(file, bufferSeconds, ok) ==
  IF file.isNull \/ file.file_id = "" THEN [what |-> "no id", newURL |-> Undefined]
  ELSE IF file.source # FileSourcesClient
  THEN [what |-> "other source", newURL |-> Undefined]
  ELSE IF Len(file.filepath) = 0 THEN [what |-> "no filepath", newURL |-> Undefined]
  ELSE IF ~needsRefresh(file.filepath, bufferSeconds)
  THEN [what |-> "fresh", newURL |-> Undefined]
  ELSE examineReissued(getNewMinioURL(file.filepath, ok))

\* The pass reached getNewMinioURL (line 389).
Reissues(what) == what \in {"not reissued", "refreshed"}

\* lines 393-396
pushUpdate(filesToUpdate, file, newURL) ==
  Append(filesToUpdate, [file_id |-> file.file_id, filepath |-> newURL])

\* Mutant of substituteFilepath: the record loses its source tag as well.
substituteFilepath_untag(fs, i, newURL) ==
  [fs EXCEPT ![i].filepath = newURL, ![i].source = ""]

\* line 397: files[i].filepath = newURL, in the caller's array
substituteFilepath(fs, i, newURL) == [fs EXCEPT ![i].filepath = newURL]

\* Mutant of batchUpdateCalls: the callback is invoked with an empty list too.
batchUpdateCalls_always(filesToUpdate) == <<filesToUpdate>>

\* lines 403-405: the calls of batchUpdateFiles after the loop
batchUpdateCalls(filesToUpdate) ==
  IF Len(filesToUpdate) > 0 THEN <<filesToUpdate>> ELSE <<>>

NoCallYet == ~policy.called /\ rm.pc = "idle" /\ ~ro.done /\ ~codec.done

\* lines 367-372
RefreshManyCall ==
  /\ NoCallYet
  /\ \E ks \in KindLists, b \in RefreshBuffers :
       /\ files' = FilesOfKinds(ks)
       /\ input' = FilesOfKinds(ks)
       /\ rm' = [pc |-> IF Len(ks) = 0 THEN "done" ELSE "loop", i |-> 1, buffer |-> b,
                 filesToUpdate |-> <<>>, threw |-> FALSE, issuerOk |-> <<>>]
  /\ UNCHANGED <<cards, now, configVars, policy, codec, outcome, persistLog, signLog, ro,
                 storeVars>>

\* lines 388-400: the effect of a pass that found e for file
RefreshManyApply(file, e, ok) ==
  /\ outcome' = Append(outcome, e.what)
  /\ signLog' = IF Reissues(e.what)
                THEN signLog \o SignRequests(file.filepath, ok)
                ELSE signLog
  /\ files' = IF e.what = "refreshed"
              THEN substituteFilepath(files, rm.i, e.newURL.value)
              ELSE files
  /\ rm' = [rm EXCEPT !.i = rm.i + 1,
                      !.issuerOk = Append(@, ok),
                      !.pc = IF rm.i = Len(files) THEN "after" ELSE "loop",
                      !.filesToUpdate =
                         IF e.what = "refreshed"
                         THEN pushUpdate(rm.filesToUpdate, file, e.newURL.value)
                         ELSE rm.filesToUpdate]

\* lines 374-401: one pass of the loop
RefreshManyStep ==
  /\ rm.pc = "loop"
  /\ \E ok \in BOOLEAN : RefreshManyApply(files[rm.i], examine(files[rm.i], rm.buffer, ok), ok)
  /\ UNCHANGED <<cards, now, configVars, policy, codec, input, persistLog, ro, storeVars>>

\* lines 403-407: the callback, which may fail, and the return
RefreshManyFinish ==
  /\ rm.pc = "after"
  /\ \E ok \in BOOLEAN :
       /\ persistLog' = persistLog \o batchUpdateCalls(rm.filesToUpdate)
       /\ rm' = [rm EXCEPT !.pc = "done",
                           !.threw = (Len(batchUpdateCalls(rm.filesToUpdate)) > 0 /\ ~ok)]
  /\ UNCHANGED <<cards, now, configVars, policy, codec, files, input, outcome, signLog, ro,
                 storeVars>>

\* refreshMinioUrl reaches getMinioURL's caller (line 426).
RefreshOneReissues(fileObj, bufferSeconds) ==
  /\ ~(fileObj.isNull \/ fileObj.source # FileSourcesClient \/ Len(fileObj.filepath) = 0)
  /\ needsRefresh(fileObj.filepath, bufferSeconds)

RefreshOneApply(obj, b, ok, stale) ==
  /\ ro' = [done |-> TRUE, fileObj |-> obj, buffer |-> b, stale |-> stale,
            result |-> refreshMinioUrl(obj, b, ok)]
  /\ signLog' = IF stale THEN SignRequests(obj.filepath, ok) ELSE <<>>

RefreshOneCall ==
  /\ NoCallYet
  /\ \E obj \in FileObjs, b \in RefreshBuffers, ok \in BOOLEAN :
       RefreshOneApply(obj, b, ok, RefreshOneReissues(obj, b))
  /\ UNCHANGED <<cards, now, configVars, policy, codec, files, input, rm, outcome, persistLog,
                 storeVars>>

(***************************************************************************)
(* SpecRefresh: module load, then time passes until one of needsRefresh,   *)
(* refreshMinioFileUrls and refreshMinioUrl is called, and runs to its end.*)
(***************************************************************************)
InitRefresh ==
  /\ InitConfig(RefreshSpecEnvs, {Absent})
  /\ now = CHOOSE t \in RefreshNows : \A u \in RefreshNows : t <= u
  /\ policy = PolicyIdle
  /\ codec = CodecIdle
  /\ RefreshIdle
  /\ cards = CardsIdle
  /\ StoreIdle

TickRefresh ==
  /\ NoCallYet
  /\ \E t \in RefreshNows : t > now /\ now' = t
  /\ UNCHANGED <<cards, configVars, policy, codec, refreshVars, storeVars>>

NextRefresh ==
  \/ TickRefresh
  \/ CallNeedsRefresh
  \/ RefreshManyCall
  \/ RefreshManyStep
  \/ RefreshManyFinish
  \/ RefreshOneCall

SpecRefresh == InitRefresh /\ [][NextRefresh]_vars

(***************************************************************************)
(* Claims about refresh, checked under SpecRefresh                         *)
(***************************************************************************)
\* The positions of the array that the finished pass refreshed.
RefreshedRecords == {i \in 1..Len(outcome) : outcome[i] = "refreshed"}

\* The updates hold the id and the new filepath of record i, once.
UpdatedOnce(updates, i) ==
  Cardinality({j \in 1..Len(updates) : updates[j].file_id = input[i].file_id}) = 1
  /\ \E j \in 1..Len(updates) :
       updates[j] = [file_id |-> input[i].file_id, filepath |-> files[i].filepath]

\* C1: batchUpdateFiles is not called before every record has been examined;
\* when refreshMinioFileUrls is over it has been called once if a record was
\* refreshed and not at all otherwise, with one {file_id, new filepath} entry
\* for each refreshed record and none for a record that was skipped.
C1_PersistOnceAfterPass ==
  /\ rm.pc \in {"idle", "loop", "after"} => persistLog = <<>>
  /\ rm.pc = "done" =>
       /\ Len(persistLog) = (IF RefreshedRecords = {} THEN 0 ELSE 1)
       /\ Len(outcome) = Len(input)
       /\ \A c \in 1..Len(persistLog) :
            /\ Len(persistLog[c]) = Cardinality(RefreshedRecords)
            /\ \A i \in RefreshedRecords :
                 /\ UpdatedOnce(persistLog[c], i)
                 /\ files[i].filepath # input[i].filepath
            /\ \A i \in (1..Len(input)) \ RefreshedRecords :
                 /\ files[i].filepath = input[i].filepath
                 /\ \A j \in 1..Len(persistLog[c]) :
                      /\ persistLog[c][j].file_id # input[i].file_id
                      /\ persistLog[c][j].filepath # input[i].filepath

\* C1 witness: a pass over two records refreshed one and skipped the other as
\* fresh, and batchUpdateFiles was called once.
C1_Witness ==
  /\ rm.pc = "done" /\ Len(input) = 2
  /\ \E i, j \in 1..2 : outcome[i] = "refreshed" /\ outcome[j] = "fresh"
  /\ Len(persistLog) = 1 /\ Len(persistLog[1]) = 1

\* C6: refreshMinioUrl never throws; when the key cannot be decoded or
\* getSignedUrl fails it returns the filepath of its argument; it returns
\* something else only when the URL was stale and getSignedUrl succeeded.
C6_RefreshOneNeverRaises ==
  ro.done =>
    /\ ~ro.result.threw
    /\ (signLog = <<>> \/ ~signLog[1].ok) => ro.result.value = ro.fileObj.filepath
    /\ ro.result.value # ro.fileObj.filepath =>
         ro.stale /\ Len(signLog) = 1 /\ signLog[1].ok

\* C6 witness: the URL was stale, getSignedUrl failed, and the original
\* filepath came back.
C6_Witness ==
  /\ ro.done /\ ro.stale
  /\ Len(signLog) = 1 /\ ~signLog[1].ok
  /\ ~ro.result.threw /\ ro.result.value = ro.fileObj.filepath

\* C9: a URL without the signature parameter never needs refresh, whatever
\* the clock, the buffer, the max-age override and its date and TTL; neither
\* refreshMinioFileUrls nor refreshMinioUrl asks for a new URL for a record
\* with such a filepath, or changes that filepath.
C9_UnsignedNeverRefreshed ==
  /\ (policy.called /\ policy.input.kind = "url" /\ ~policy.input.sig) => ~policy.result
  /\ \A i \in 1..Len(input) :
       input[i].filepath = UnsignedUrl =>
         /\ files[i].filepath = UnsignedUrl
         /\ i <= Len(outcome) => ~Reissues(outcome[i])
  /\ \A j \in 1..Len(signLog) : signLog[j].for # UnsignedUrl
  /\ (ro.done /\ ro.fileObj.filepath = UnsignedUrl) =>
       ro.result = Returned(UnsignedUrl) /\ ~ro.stale

\* C9 witness: long after the date it carries, a record of this backend with
\* an unsigned URL was examined and left alone.
C9_Witness ==
  /\ rm.pc = "done" /\ now = 3700000
  /\ \E i \in 1..Len(input) :
       /\ input[i].filepath = UnsignedUrl /\ input[i].file_id # ""
       /\ input[i].source = FileSourcesClient
       /\ outcome[i] = "fresh" /\ files[i].filepath = UnsignedUrl

\* The record passes the three tests of lines 377-385.
Eligible(file) ==
  ~file.isNull /\ file.file_id # "" /\ file.source = FileSourcesClient
  /\ Len(file.filepath) > 0

\* No update collected or handed to batchUpdateFiles names the record.
NotInUpdates(file) ==
  /\ \A u \in 1..Len(rm.filesToUpdate) : rm.filesToUpdate[u].file_id # file.file_id
  /\ \A c \in 1..Len(persistLog) :
       \A u \in 1..Len(persistLog[c]) : persistLog[c][u].file_id # file.file_id

\* C11: a stale record whose key has fewer than three segments, or for which
\* getSignedUrl fails, keeps its filepath and is in no update; the call fails
\* only if batchUpdateFiles does; every record is examined, and a later
\* stale record with a whole key and a working issuer is refreshed.
C11_FailuresIsolated ==
  /\ rm.threw => Len(persistLog) = 1
  /\ rm.pc = "done" => Len(outcome) = Len(input)
  /\ \A i \in 1..Len(outcome) :
       outcome[i] = "not reissued" =>
         /\ files[i].filepath = input[i].filepath
         /\ NotInUpdates(input[i])
         /\ \A j \in (i + 1)..Len(outcome) :
              (/\ Eligible(input[j])
               /\ needsRefresh(input[j].filepath, rm.buffer)
               /\ Len(Split(extractKeyFromMinioUrl(input[j].filepath).value, "/")) >= 3
               /\ rm.issuerOk[j])
              => /\ outcome[j] = "refreshed"
                 /\ files[j].filepath # input[j].filepath

\* C11 witness: the issuer failed for the first record, whose key is whole,
\* and the second record was refreshed all the same.
C11_Witness ==
  /\ rm.pc = "done" /\ ~rm.threw /\ Len(input) = 2
  /\ outcome = <<"not reissued", "refreshed">>
  /\ ~rm.issuerOk[1] /\ rm.issuerOk[2]
  /\ input[1].filepath = StaleUrl
  /\ files[1].filepath = StaleUrl /\ files[2].filepath # input[2].filepath
  /\ Len(persistLog) = 1 /\ Len(persistLog[1]) = 1

\* The two records agree in every field but, possibly, filepath.
SameButFilepath(a, b) ==
  a.isNull = b.isNull /\ a.file_id = b.file_id /\ a.source = b.source

\* C12: the array refreshMinioFileUrls returns holds the records it was given,
\* as many and in the same order; a record without id, without filepath, of
\* another source or with a fresh URL is unchanged, and a refreshed record
\* differs from what it was in filepath only.
C12_SameRecords ==
  /\ Len(files) = Len(input)
  /\ \A i \in 1..Len(input) :
       /\ SameButFilepath(files[i], input[i])
       /\ (i <= Len(outcome)
           /\ outcome[i] \in {"no id", "other source", "no filepath", "fresh"})
          => files[i] = input[i]
       /\ i > Len(outcome) => files[i] = input[i]
       /\ files[i] # input[i] => (i <= Len(outcome) /\ outcome[i] = "refreshed")

\* C12 witness: of two records with the same stale URL the one of this
\* backend was refreshed and the one of another source came back as it was.
C12_Witness ==
  /\ rm.pc = "done" /\ Len(input) = 2 /\ Len(files) = 2
  /\ \E i, j \in 1..2 :
       /\ outcome[i] = "refreshed" /\ outcome[j] = "other source"
       /\ input[i].filepath = input[j].filepath
       /\ files[i].filepath # input[i].filepath /\ SameButFilepath(files[i], input[i])
       /\ files[j] = input[j]

\* The URLs among the filepaths of the records that the issuer produced for
\* SampleKey, with the path /bucket/key.
UrlsOfSampleKey == {StaleUrl, FreshUrl}

\* C15 (as claimed): a new URL asked for in place of a URL that was issued
\* for a key is asked for that same key.
C15_KeyPreserved ==
  \A j \in 1..Len(signLog) :
    signLog[j].for \in UrlsOfSampleKey => signLog[j].key = SampleKey

(***************************************************************************)
(* deleteFileFromMinio, crud.js lines 128-175                              *)
(***************************************************************************)
\* line 131: the ownership check
ownsKey(key, userId) == Includes(key, userId)

\* lines 129-135: where the call goes once the key is extracted
deleteEntry(key, userId) ==
  IF key.threw THEN "threw"                         \* Invalid input, line 232
  ELSE IF ~ownsKey(key.value, userId) THEN "refused"
  ELSE "probe"

\* The call is over with the given result.
deleteOver(d, result) == [d EXCEPT !.pc = "idle", !.results = Append(@, result)]

DeleteBegin(userId, filepath, key) ==
  del' = IF deleteEntry(key, userId) = "probe"
         THEN [del EXCEPT !.pc = "probe", !.calls = @ + 1, !.requester = userId,
                          !.filepath = filepath, !.key = key.value]
         ELSE deleteOver([del EXCEPT !.calls = @ + 1, !.requester = userId,
                                     !.filepath = filepath, !.key = key.value],
                         deleteEntry(key, userId))

\* lines 128-135; a later call is for the same record by the same requester
DeleteCall ==
  /\ del.pc = "idle" /\ del.calls < MaxCalls
  /\ \E userId \in RequesterIds, filepath \in DeletePaths :
       /\ del.calls > 0 => (userId = del.requester /\ filepath = del.filepath)
       /\ DeleteBegin(userId, filepath, extractKeyFromMinioUrl(filepath))
  /\ UNCHANGED <<cards, now, configVars, policy, codec, refreshVars, objectPresent, reqLog, up,
                 tmpFile>>

\* What a HeadObject request may answer: the object is there, it is not, or
\* the request fails otherwise.
ProbeOutcomes == {"exists", "NotFound", "error"}

DeleteOutcomes == {"ok", "NoSuchKey", "error"}

Request(op, answer) ==
  [call |-> del.calls, op |-> op, key |-> del.key, answer |-> answer,
   present |-> objectPresent]

\* Mutant of probeNext: the delete is sent whatever the probe answers.
probeNext_ignore(answer) == "delete"

\* lines 141-150: only NotFound ends the call; any other error is dropped
probeNext(answer) == IF answer = "NotFound" THEN "return" ELSE "delete"

\* lines 152 and 165-174: a NoSuchKey error is a success, any other is thrown
deleteNext(answer) ==
  IF answer = "ok" THEN "verify"
  ELSE IF answer = "NoSuchKey" THEN "return"
  ELSE "throw"

\* Mutant of verifyNext: an object still visible fails the call.
verifyNext_strict(answer) == IF answer = "exists" THEN "throw" ELSE "return"

\* lines 154-166: whatever the verifying probe answers, the call returns
verifyNext(answer) == "return"

\* lines 141-150
DeleteProbe ==
  /\ del.pc = "probe"
  /\ \E answer \in ProbeOutcomes :
       /\ reqLog' = Append(reqLog, Request("head", answer))
       /\ del' = IF probeNext(answer) = "return" THEN deleteOver(del, "returned")
                 ELSE [del EXCEPT !.pc = "delete"]
  /\ UNCHANGED <<cards, now, configVars, policy, codec, refreshVars, objectPresent, up, tmpFile>>

\* lines 152-153 and the catch of lines 165-174
DeleteSend ==
  /\ del.pc = "delete"
  /\ \E answer \in DeleteOutcomes :
       /\ reqLog' = Append(reqLog, Request("delete", answer))
       /\ objectPresent' = IF answer = "ok" THEN FALSE ELSE objectPresent
       /\ del' = IF deleteNext(answer) = "verify" THEN [del EXCEPT !.pc = "verify"]
                 ELSE IF deleteNext(answer) = "return" THEN deleteOver(del, "returned")
                 ELSE deleteOver(del, "threw")
  /\ UNCHANGED <<cards, now, configVars, policy, codec, refreshVars, up, tmpFile>>

\* lines 154-164: whatever the second HeadObject answers is logged only
DeleteVerify ==
  /\ del.pc = "verify"
  /\ \E answer \in ProbeOutcomes :
       /\ reqLog' = Append(reqLog, Request("verify", answer))
       /\ del' = deleteOver(del, IF verifyNext(answer) = "return" THEN "returned"
                                 ELSE "threw")
  /\ UNCHANGED <<cards, now, configVars, policy, codec, refreshVars, objectPresent, up, tmpFile>>

(***************************************************************************)
(* SpecDelete: module load, then deleteFileFromMinio is called for a       *)
(* record, and again for the same record, against a store that may or may  *)
(* not hold the object.                                                    *)
(***************************************************************************)
InitDelete ==
  /\ InitConfig({Absent}, {Absent})
  /\ now = FirstNow
  /\ policy = PolicyIdle
  /\ codec = CodecIdle
  /\ RefreshIdle
  /\ cards = CardsIdle
  /\ del = DelIdle
  /\ objectPresent \in BOOLEAN
  /\ reqLog = <<>>
  /\ up = UpIdle
  /\ tmpFile = [exists |-> TRUE, size |-> 0]

NextDelete == DeleteCall \/ DeleteProbe \/ DeleteSend \/ DeleteVerify

SpecDelete == InitDelete /\ [][NextDelete]_vars

(***************************************************************************)
(* Claims about delete, checked under SpecDelete                           *)
(***************************************************************************)
\* The second segment of the key, where getMinioKey puts the owner.
OwnerSegment(key) == IF Len(Split(key, "/")) >= 2 THEN Split(key, "/")[2] ELSE <<>>

\* C4 (as claimed): no request goes to the store for a key whose owner segment
\* is not contained in the requester's id, and such a call is refused.
C4_OwnerSegmentChecked ==
  /\ \A r \in 1..Len(reqLog) : Includes(del.requester, OwnerSegment(reqLog[r].key))
  /\ (del.calls > 0 /\ ~Includes(del.requester, OwnerSegment(del.key))) =>
       /\ del.pc = "idle"
       /\ \A c \in 1..Len(del.results) : del.results[c] \in {"refused", "threw"}

\* The requests that the given call sent.
RequestsOf(call, op) == {r \in 1..Len(reqLog) : reqLog[r].call = call /\ reqLog[r].op = op}

\* A call whose probe answered NotFound returned, and sent neither a delete
\* nor a verifying probe.
NotFoundEndsCall ==
  \A r \in 1..Len(reqLog) :
    (reqLog[r].op = "head" /\ reqLog[r].answer = "NotFound") =>
      /\ Len(del.results) >= reqLog[r].call
      /\ del.results[reqLog[r].call] = "returned"
      /\ RequestsOf(reqLog[r].call, "delete") = {}
      /\ RequestsOf(reqLog[r].call, "verify") = {}

TwoCallsOver == Len(del.results) = 2 /\ del.pc = "idle" /\ RequestsOf(1, "head") # {}

BothSucceedOneDelete ==
  /\ del.results[1] = "returned" /\ del.results[2] = "returned"
  /\ Cardinality({r \in 1..Len(reqLog) : reqLog[r].op = "delete"}) <= 1

StoreAnswersTruly ==
  \A r \in 1..Len(reqLog) :
    IF reqLog[r].op = "delete" THEN reqLog[r].answer = "ok"
    ELSE reqLog[r].answer = (IF reqLog[r].present THEN "exists" ELSE "NotFound")

C16_DeleteOnceThenReturn ==
  /\ \A c \in 1..del.calls :
       /\ Cardinality(RequestsOf(c, "delete")) <= 1
       /\ Cardinality(RequestsOf(c, "verify")) <= 1
  /\ \A r \in 1..Len(reqLog) :
       /\ reqLog[r].op = "delete" =>
            /\ ownsKey(reqLog[r].key, del.requester)
            /\ \E h \in RequestsOf(reqLog[r].call, "head") : h < r
       /\ (reqLog[r].op = "delete" /\ reqLog[r].answer = "ok") =>
            /\ \A v \in RequestsOf(reqLog[r].call, "verify") : v = r + 1
            /\ Len(del.results) >= reqLog[r].call =>
                 /\ del.results[reqLog[r].call] = "returned"
                 /\ RequestsOf(reqLog[r].call, "verify") # {}
       /\ reqLog[r].op = "verify" =>
            /\ r > 1 /\ reqLog[r - 1].op = "delete" /\ reqLog[r - 1].answer = "ok"
            /\ reqLog[r - 1].call = reqLog[r].call

\* C16 witness: the object was deleted, the verifying probe still saw it, and
\* the call returned.
C16_Witness ==
  /\ del.pc = "idle" /\ Len(del.results) = 1 /\ del.results[1] = "returned"
  /\ Len(reqLog) = 3
  /\ reqLog[1].op = "head" /\ reqLog[1].answer = "exists"
  /\ reqLog[2].op = "delete" /\ reqLog[2].answer = "ok"
  /\ reqLog[3].op = "verify" /\ reqLog[3].answer = "exists"

(***************************************************************************)
(* uploadFileToMinio, crud.js lines 187-222                                *)
(***************************************************************************)
\* line 191
uploadFileName(file_id, baseName) == file_id \o <<"_", "_">> \o baseName

\* lines 188-192
UploadCall ==
  /\ up.pc = "idle"
  /\ \E userId \in UploadUsers, file_id \in UploadFileIds, basePath \in UploadBasePaths :
       up' = [up EXCEPT !.pc = "stat", !.userId = userId, !.basePath = basePath,
                        !.fileName = uploadFileName(file_id, TmpBaseName)]
  /\ UNCHANGED <<cards, now, configVars, policy, codec, refreshVars, del, objectPresent, reqLog,
                 tmpFile>>

\* lines 194-196: fs.promises.stat gives the size, or fails
UploadStat ==
  /\ up.pc = "stat"
  /\ \E ok \in BOOLEAN :
       up' = IF ok /\ tmpFile.exists
             THEN [up EXCEPT !.pc = "put", !.bytes = tmpFile.size]
             ELSE [up EXCEPT !.pc = "catch"]
  /\ UNCHANGED <<cards, now, configVars, policy, codec, refreshVars, del, objectPresent, reqLog,
                 tmpFile>>

\* lines 198-205: the PutObject request
UploadPut ==
  /\ up.pc = "put"
  /\ \E ok \in BOOLEAN :
       /\ up' = [up EXCEPT !.pc = IF ok THEN "sign" ELSE "catch"]
       /\ objectPresent' = IF ok THEN TRUE ELSE objectPresent
  /\ UNCHANGED <<cards, now, configVars, policy, codec, refreshVars, del, reqLog, tmpFile>>

\* lines 206-207, issued being what getMinioURL returned or threw
uploadIssued(issued) ==
  IF issued.threw THEN [up EXCEPT !.pc = "catch"]
  ELSE [up EXCEPT !.pc = "done",
                  !.result = [threw |-> FALSE, filepath |-> issued.value, bytes |-> up.bytes]]

UploadSign ==
  /\ up.pc = "sign"
  /\ \E ok \in BOOLEAN :
       up' = uploadIssued(getMinioURL(up.userId, up.fileName, bucketName, up.basePath, ok))
  /\ UNCHANGED <<cards, now, configVars, policy, codec, refreshVars, del, objectPresent, reqLog,
                 tmpFile>>

\* lines 208-221: the temporary file is unlinked, which may fail, and the
\* error is thrown again
UploadCatch ==
  /\ up.pc = "catch"
  /\ \E ok \in BOOLEAN :
       /\ tmpFile' = [tmpFile EXCEPT !.exists = IF ok THEN FALSE ELSE @]
       /\ up' = [up EXCEPT !.pc = "done", !.unlink = IF ok THEN "ok" ELSE "failed",
                           !.result = [threw |-> TRUE, filepath |-> <<>>, bytes |-> 0]]
  /\ UNCHANGED <<cards, now, configVars, policy, codec, refreshVars, del, objectPresent, reqLog>>

(***************************************************************************)
(* SpecUpload: module load, then uploadFileToMinio is called once for the  *)
(* temporary file.                                                         *)
(***************************************************************************)
InitUpload ==
  /\ InitConfig({Absent}, UrlExpiryEnvs)
  /\ now = FirstNow
  /\ policy = PolicyIdle
  /\ codec = CodecIdle
  /\ RefreshIdle
  /\ cards = CardsIdle
  /\ del = DelIdle
  /\ objectPresent \in BOOLEAN
  /\ reqLog = <<>>
  /\ up = UpIdle
  /\ tmpFile \in [exists : {TRUE}, size : FileSizes]

NextUpload == UploadCall \/ UploadStat \/ UploadPut \/ UploadSign \/ UploadCatch

SpecUpload == InitUpload /\ [][NextUpload]_vars

(***************************************************************************)
(* Claims about upload, checked under SpecUpload                           *)
(***************************************************************************)
\* C3 (as claimed): once uploadFileToMinio is over, whether it returned or
\* threw, the temporary file is gone, unless removing it was tried and failed.
C3_TempFileRemoved == up.pc = "done" => (~tmpFile.exists \/ up.unlink = "failed")

\* The TTL the configuration asks for: the number configured if it is
\* positive, capped at seven days, and seven days otherwise.
ConfiguredTtl ==
  IF envUrlExpirySeconds.isNull THEN SevenDays
  ELSE LET e == CHOOSE i \in 1..Len(UrlExpiryTexts) :
                  UrlExpiryTexts[i].text = envUrlExpirySeconds.value
       IN  IF UrlExpiryTexts[e].numeric /\ UrlExpiryTexts[e].value > 0
           THEN Min(UrlExpiryTexts[e].value, SevenDays)
           ELSE SevenDays

\* The X-Amz-Expires parameter of the URL that the upload returned.
IssuedTtlText ==
  SearchParamsGet(SearchParams(ParseURL(up.result.filepath).search), XAmzExpires)

UploadIssued == up.pc = "done" /\ ~up.result.threw

\* C13 (as claimed): the TTL handed to getSignedUrl is between 1 and seven
\* days: the configured number capped at seven days, and seven days when the
\* value is absent, not a number, zero or negative.
C13_TtlFromConfig ==
  /\ minioUrlExpirySeconds \in 1..SevenDays
  /\ minioUrlExpirySeconds = ConfiguredTtl
  /\ UploadIssued => IssuedTtlText = Str(NatToString(ConfiguredTtl))

\* C13, the part that holds: whatever is configured, the TTL handed to
\* getSignedUrl is between 1 and seven days.
C13_TtlInRange ==
  /\ minioUrlExpirySeconds \in 1..SevenDays
  /\ UploadIssued => IssuedTtlText = Str(NatToString(minioUrlExpirySeconds))

(***************************************************************************)
(* getAgentCategory, agentCategories.ts lines 4-83, and the filter of      *)
(* AgentCards.  A Hangul syllable is written as one character named by its *)
(* code point.                                                             *)
(***************************************************************************)
AGENT_CATEGORIES ==
  <<"all", "finance", "basic", "data_analysis", "marketing", "development", "support">>

MappedAgentId == <<"a", "g", "e", "n", "t", "_", "3", "U", "J", "G", "L", "G", "d", "O", "m", "U", "F", "8", "1", "Z", "D", "6", "4", "g", "j", "v", "0">>

\* lines 21-31
AGENT_CATEGORY_MAP == [id \in {MappedAgentId} |-> "data_analysis"]

\* Names every object literal inherits from Object.prototype.
InheritedProperties ==
  {<<"c", "o", "n", "s", "t", "r", "u", "c", "t", "o", "r">>,
   <<"t", "o", "S", "t", "r", "i", "n", "g">>,
   <<"v", "a", "l", "u", "e", "O", "f">>,
   <<"h", "a", "s", "O", "w", "n", "P", "r", "o", "p", "e", "r", "t", "y">>,
   <<"_", "_", "p", "r", "o", "t", "o", "_", "_">>}

\* What a lookup yields that finds an inherited property: not a category.
InheritedValue == "inherited"

\* line 40: AGENT_CATEGORY_MAP[agent.id]; "" stands for undefined
mapLookup(id) ==
  IF id \in DOMAIN AGENT_CATEGORY_MAP THEN AGENT_CATEGORY_MAP[id]
  ELSE IF id \in InheritedProperties THEN InheritedValue
  ELSE ""

\* lines 50-79: the keywords, in the order they are tested
Keywords ==
  << [category |-> "finance",
      words |-> {<<"f", "i", "n", "a", "n", "c", "e">>,
                 <<"f", "i", "n", "a", "n", "c", "i", "a", "l">>,
                 <<"U+C7AC", "U+BB34">>,
                 <<"a", "c", "c", "o", "u", "n", "t", "i", "n", "g">>,
                 <<"b", "u", "d", "g", "e", "t">>,
                 <<"i", "n", "v", "e", "s", "t", "m", "e", "n", "t">>}],
     [category |-> "data_analysis",
      words |-> {<<"d", "a", "t", "a">>,
                 <<"a", "n", "a", "l", "y", "s", "i", "s">>,
                 <<"U+B370", "U+C774", "U+D130">>,
                 <<"U+BD84", "U+C11D">>,
                 <<"a", "n", "a", "l", "y", "t", "i", "c", "s">>,
                 <<"c", "h", "a", "r", "t">>,
                 <<"r", "e", "p", "o", "r", "t">>,
                 <<"s", "t", "a", "t", "i", "s", "t", "i", "c", "s">>}],
     [category |-> "marketing",
      words |-> {<<"m", "a", "r", "k", "e", "t", "i", "n", "g">>,
                 <<"U+B9C8", "U+CF00", "U+D305">>,
                 <<"c", "a", "m", "p", "a", "i", "g", "n">>,
                 <<"s", "o", "c", "i", "a", "l">>,
                 <<"c", "o", "n", "t", "e", "n", "t">>,
                 <<"b", "r", "a", "n", "d">>}],
     [category |-> "development",
      words |-> {<<"c", "o", "d", "e">>,
                 <<"d", "e", "v", "e", "l", "o", "p">>,
                 <<"U+AC1C", "U+BC1C">>,
                 <<"p", "r", "o", "g", "r", "a", "m", "m", "i", "n", "g">>,
                 <<"s", "o", "f", "t", "w", "a", "r", "e">>,
                 <<"a", "p", "i">>}],
     [category |-> "support",
      words |-> {<<"s", "u", "p", "p", "o", "r", "t">>,
                 <<"h", "e", "l", "p">>,
                 <<"U+C9C0", "U+C6D0">>,
                 <<"c", "u", "s", "t", "o", "m", "e", "r">>,
                 <<"s", "e", "r", "v", "i", "c", "e">>,
                 <<"a", "s", "s", "i", "s", "t">>}] >>

\* lines 51-82
RECURSIVE keywordCategory(_, _)
keywordCategory(content, k) ==
  IF k > Len(Keywords) THEN "basic"
  ELSE IF \E word \in Keywords[k].words : Includes(content, word)
  THEN Keywords[k].category
  ELSE keywordCategory(content, k + 1)

\* lines 46-47: agent.name?.toLowerCase() || ''
lowerOrEmpty(text) == IF text.isNull THEN <<>> ELSE ToLowerCase(text.value)

\* line 48
agentContent(agent) ==
  lowerOrEmpty(agent.name) \o <<" ">> \o lowerOrEmpty(agent.description)

\* lines 40-82, mappedCategory being what the lookup gave
categoryOf(agent, mappedCategory) ==
  IF mappedCategory # "" THEN mappedCategory
  ELSE keywordCategory(agentContent(agent), 1)

\* lines 34-83
getAgentCategory(agent) ==
  IF agent.id = <<>> THEN "basic"                       \* line 35: !agent.id
  ELSE categoryOf(agent, mapLookup(agent.id))

\* The ids, names and descriptions of agents; a name and a description come
\* with the families of keywords they hold, written down independently.
AgentIds ==
  << <<>>, MappedAgentId, <<"a", "g", "e", "n", "t", "_", "x">>, <<"c", "o", "n", "s", "t", "r", "u", "c", "t", "o", "r">> >>

AgentNames ==
  << [text |-> Absent, families |-> {}],
     [text |-> Str(<<"B", "o", "b">>), families |-> {}],
     [text |-> Str(<<"F", "i", "n", "a", "n", "c", "e", " ", "D", "a", "t", "a">>), families |-> {"finance", "data_analysis"}],
     [text |-> Str(<<"D", "A", "T", "A", " ", "R", "e", "p", "o", "r", "t">>), families |-> {"data_analysis"}],
     [text |-> Str(<<"B", "r", "a", "n", "d", " ", "A", "p", "i">>), families |-> {"marketing", "development"}],
     [text |-> Str(<<"C", "o", "d", "e", " ", "H", "e", "l", "p", "e", "r">>), families |-> {"development", "support"}],
     [text |-> Str(<<"U+C7AC", "U+BB34">>), families |-> {"finance"}],
     [text |-> Str(<<"A", "l", "l">>), families |-> {}] >>

AgentDescriptions ==
  << [text |-> Absent, families |-> {}],
     [text |-> Str(<<>>), families |-> {}],
     [text |-> Str(<<"b", "u", "d", "g", "e", "t">>), families |-> {"finance"}],
     [text |-> Str(<<"c", "u", "s", "t", "o", "m", "e", "r", " ", "s", "e", "r", "v", "i", "c", "e">>), families |-> {"support"}],
     [text |-> Str(<<"C", "h", "a", "r", "t", " ", "m", "a", "k", "e", "r">>), families |-> {"data_analysis"}] >>

AgentOf(i, n, d) ==
  [id |-> AgentIds[i], name |-> AgentNames[n].text,
   description |-> AgentDescriptions[d].text]

\* AgentCards lines 29-36: whether the tab selected shows the agent
shownUnder(selected, category) == selected = "all" \/ category = selected

\* AgentCards renders one agent under the tab selected.
ShowAgent ==
  /\ ~cards.done
  /\ \E i \in 1..Len(AgentIds), n \in 1..Len(AgentNames), d \in 1..Len(AgentDescriptions),
        t \in 1..Len(AGENT_CATEGORIES) :
       cards' = [done |-> TRUE, agent |-> i, name |-> n, description |-> d,
                 selected |-> AGENT_CATEGORIES[t],
                 category |-> getAgentCategory(AgentOf(i, n, d)),
                 shown |-> shownUnder(AGENT_CATEGORIES[t], getAgentCategory(AgentOf(i, n, d)))]
  /\ UNCHANGED <<now, configVars, policy, codec, refreshVars, storeVars>>

InitCards ==
  /\ InitConfig({Absent}, {Absent})
  /\ now = FirstNow
  /\ policy = PolicyIdle
  /\ codec = CodecIdle
  /\ RefreshIdle
  /\ StoreIdle
  /\ cards = CardsIdle

NextCards == ShowAgent

SpecCards == InitCards /\ [][NextCards]_vars

(***************************************************************************)
(* Claims about agent classification, checked under SpecCards              *)
(***************************************************************************)
KeywordOrder == <<"finance", "data_analysis", "marketing", "development", "support">>

\* The first family, in the order of the keywords, that the name or the
\* description of the agent shown holds; "basic" if they hold none.
ExpectedByKeywords ==
  LET held == AgentNames[cards.name].families \cup AgentDescriptions[cards.description].families
  IN  IF held = {} THEN "basic"
      ELSE KeywordOrder[CHOOSE k \in 1..Len(KeywordOrder) :
                          /\ KeywordOrder[k] \in held
                          /\ \A j \in 1..(k - 1) : KeywordOrder[j] \notin held]

ShownId == AgentIds[cards.agent]

\* C14 (as claimed): a mapped id gives the mapped category; any other agent,
\* one without id included, gets the first family of keywords that its name
\* and description hold, "basic" if none, and never "all".  Ids that name an
\* inherited property are left aside.
C14_MappedElseKeywords ==
  (cards.done /\ ShownId \notin InheritedProperties) =>
    /\ ShownId = MappedAgentId => cards.category = "data_analysis"
    /\ ShownId # MappedAgentId =>
         cards.category = ExpectedByKeywords /\ cards.category # "all"

\* C14, the part that holds: the same for an agent that has an id, the id
\* being no name of an inherited property.
C14_WithOwnId ==
  (cards.done /\ ShownId # <<>> /\ ShownId \notin InheritedProperties) =>
    /\ ShownId = MappedAgentId => cards.category = "data_analysis"
    /\ ShownId # MappedAgentId =>
         cards.category = ExpectedByKeywords /\ cards.category # "all"

====
